---- MODULE Spec2Model ----
(***************************************************************************)
(* Model of the OAuth facade and the MCP session/transport handling of     *)
(* src/src/main.ts (hh-mcp-server).                                        *)
(*                                                                         *)
(* JavaScript values: an absent query/body/header value is Undefined, a    *)
(* string is a TLA+ string, a JS object is a function from field names to  *)
(* values, the Map `sessions` and the plain object `transports` are        *)
(* functions from keys to values.  The Authorization header is kept as a   *)
(* sequence of characters so that startsWith and substring are computed.   *)
(* A URL is kept in parsed form: base, query parameters, and whether the   *)
(* text parses at all (new URL throws when it does not).                   *)
(***************************************************************************)
EXTENDS Integers, Sequences, FiniteSets, TLC

VARIABLES
    env,         \* the parsed environment (main.ts:27)
    sessions,    \* Map<string, Record> (main.ts:30)
    transports,  \* { [sessionId]: transport } (main.ts:31)
    tstate,      \* the transport objects constructed so far
    uuids,       \* how many values crypto.randomUUID() has produced
    now,         \* the wall clock read by new Date()
    inflight,    \* how many /mcp requests are suspended at requireAuth's fetch
    proc,        \* the process: running, closing (signal handler), exited
    toClose,     \* session ids the signal handler's for-in has yet to visit
    signalled,   \* history: the session ids registered when the signal came
    attempted,   \* history: the session ids whose transport close() was called on
    streams,     \* the event streams GET /mcp has opened, in order
    last,        \* the last response sent: route, status, error, challenge
    issued,      \* history: state key -> the authorize query that made it
    consumed,    \* history: state keys a callback has consumed
    deleted,     \* history: keys removed by DELETE /mcp
    exchanging,  \* token requests suspended at the fetch of the upstream token endpoint
    registrations, \* history: how many registrations have succeeded
    tokenFailed  \* history: a token exchange met an upstream network failure

vars == <<env, sessions, transports, tstate, uuids, now, inflight, proc,
          toClose, signalled, attempted, streams, last, issued, consumed, deleted, exchanging, registrations,
          tokenFailed>>

\* What the token and registration routes add to the state.
oauthVars == <<exchanging, registrations, tokenFailed>>

----------------------------------------------------------------------------
(* Bounds of the model. *)

MaxUuid == 2
MaxTime == 1
MaxInflight == 1
MaxExchanging == 2
MaxRegistrations == 2
MaxStreams == 2
MaxBeats == 1

----------------------------------------------------------------------------
(* JavaScript values. *)

Undefined == "<undefined>"

\* JS truthiness of a string-or-undefined value: !v is true for undefined
\* and for the empty string.
Truthy(v) == v # Undefined /\ v # ""

\* An absent header, for values kept as character sequences.
NoHeader == <<"<undefined>">>

\* crypto.randomUUID(): the n-th value drawn; distinct draws are distinct.
RandomUUID(n) == "uuid" \o ToString(n)

\* StateKeyOf ignoring the value drawn.
StateKeyOf_Constant(uuid) == "auth_" \o RandomUUID(1)

\* `auth_${crypto.randomUUID()}` (main.ts:191)
StateKeyOf(uuid) == "auth_" \o uuid

\* A property every plain object inherits from Object.prototype:
\* transports[InheritedKey] is truthy although nothing was registered.
InheritedKey == "constructor"

\* obj[f] for a JS object: Undefined when the field is absent.
Get(obj, f) == IF f \in DOMAIN obj THEN obj[f] ELSE Undefined

\* map.set(k, v) / obj[k] = v
MapSet(m, k, v) == [x \in DOMAIN m \cup {k} |-> IF x = k THEN v ELSE m[x]]

\* map.delete(k) / delete obj[k]
MapDelete(m, k) == [x \in DOMAIN m \ {k} |-> m[x]]

EmptyMap == [x \in {} |-> Undefined]

----------------------------------------------------------------------------
(* URLs. *)

Url(base, params) == [valid |-> TRUE, base |-> base, params |-> params]
NotAUrl(text) == [valid |-> FALSE, base |-> text, params |-> <<>>]

RECURSIVE ReplaceFirst(_, _, _, _)
\* The parameter list with the first pair named `name` set to `value` and
\* every later pair of that name dropped.
ReplaceFirst(ps, name, value, seen) ==
    IF ps = <<>> THEN <<>>
    ELSE IF Head(ps)[1] = name
         THEN IF seen THEN ReplaceFirst(Tail(ps), name, value, TRUE)
              ELSE <<<<name, value>>>> \o ReplaceFirst(Tail(ps), name, value, TRUE)
         ELSE <<Head(ps)>> \o ReplaceFirst(Tail(ps), name, value, seen)

\* url.searchParams.set(name, value)
SearchParamsSet(url, name, value) ==
    IF \E i \in 1..Len(url.params) : url.params[i][1] = name
    THEN [url EXCEPT !.params = ReplaceFirst(url.params, name, value, FALSE)]
    ELSE [url EXCEPT !.params = Append(url.params, <<name, value>>)]

NoUrl == NotAUrl("")

----------------------------------------------------------------------------
(* The environment (main.ts:18-27).  HH_CLIENT_ID, HH_CLIENT_SECRET and    *)
(* HH_REDIRECT_URI are z.string(): present, possibly empty.                *)

EnvConfigured ==
    [HH_CLIENT_ID |-> "hh-client", HH_CLIENT_SECRET |-> "hh-secret",
     HH_REDIRECT_URI |-> "https://facade.example/oauth/callback/debug",
     HOST |-> "localhost", PORT |-> "3000"]

EnvEmpty ==
    [HH_CLIENT_ID |-> "", HH_CLIENT_SECRET |-> "", HH_REDIRECT_URI |-> "",
     HOST |-> "localhost", PORT |-> "3000"]

EnvChoices == {EnvConfigured, EnvEmpty}

\* a || b for strings
OrElse(a, b) == IF Truthy(a) THEN a ELSE b

\* `http://${env.HOST}:${env.PORT}`
BaseUrl(e) == "http://" \o e.HOST \o ":" \o e.PORT

\* env.HH_REDIRECT_URI || `http://${env.HOST}:${env.PORT}/oauth/callback/debug`
ConfiguredRedirectUri(e) ==
    OrElse(e.HH_REDIRECT_URI, BaseUrl(e) \o "/oauth/callback/debug")

----------------------------------------------------------------------------
(* Inputs. *)

\* Redirect URIs a caller may send, as text.
UriPlain == "http://localhost:9999/cb"
UriQuery == "https://app.example/cb?x=1"
UriBad == "not a url"

CallerRedirectUris == {UriPlain, UriQuery, UriBad}

\* new URL(text): the parsed URL, or a value marking that the constructor throws.
ParseUrl(text) ==
    CASE text = UriPlain -> Url("http://localhost:9999/cb", <<>>)
      [] text = UriQuery -> Url("https://app.example/cb", <<<<"x", "1">>>>)
      [] text = "https://hh.ru/oauth/authorize" -> Url(text, <<>>)
      [] OTHER -> NotAUrl(text)

AuthorizeQuery(c, r, s, ch, m) ==
    [client_id |-> c, redirect_uri |-> r, state |-> s,
     code_challenge |-> ch, code_challenge_method |-> m]

\* The queries of GET /oauth/authorize that the model sends.
AuthorizeQueries ==
    { AuthorizeQuery(Undefined, UriPlain, "s1", Undefined, Undefined),
      AuthorizeQuery("client-a", "", Undefined, Undefined, Undefined),
      AuthorizeQuery("client-a", UriPlain, "s1", Undefined, Undefined),
      AuthorizeQuery("client-a", UriPlain, Undefined, "challenge", "plain"),
      AuthorizeQuery("client-b", UriQuery, "", Undefined, Undefined),
      AuthorizeQuery("client-b", UriBad, "s2", "challenge", Undefined) }

NoQuery == AuthorizeQuery(Undefined, Undefined, Undefined, Undefined, Undefined)

\* The keys generated so far and their look-alikes in the other namespace:
\* every value a client can have seen, and values that were never stored.
KnownKeys(n) ==
    {RandomUUID(i) : i \in 1..n} \cup {StateKeyOf(RandomUUID(i)) : i \in 1..n}

Codes == {"code-1", "code-2"}

CallbackQuery(c, s, e, d) ==
    [code |-> c, state |-> s, error |-> e, error_description |-> d]

CallbackQueries(n) ==
    { CallbackQuery(c, s, Undefined, Undefined) :
        c \in Codes, s \in KnownKeys(n) }
    \cup
    { CallbackQuery("code-1", Undefined, Undefined, Undefined),
      CallbackQuery(Undefined, StateKeyOf(RandomUUID(1)), Undefined, Undefined),
      CallbackQuery(Undefined, Undefined, "access_denied", "user denied") }
    \cup
    { CallbackQuery("code-1", s, "access_denied", "user denied") :
        s \in {StateKeyOf(RandomUUID(i)) : i \in 1..n} }

----------------------------------------------------------------------------
(* Responses.  Every response of the facade's routes has these fields; the *)
(* ones a handler does not set keep the defaults.                          *)

Response ==
    [status |-> 0, error |-> Undefined, error_description |-> Undefined,
     www |-> FALSE, location |-> NoUrl, sid |-> Undefined,
     found |-> FALSE, dispatched |-> 0, id |-> Undefined]

\* What `last` keeps of a response: the route, the status, the error and
\* whether a WWW-Authenticate header was set.
Sent(op, resp) ==
    [op |-> op, status |-> resp.status, error |-> resp.error,
     www |-> IF "www" \in DOMAIN resp THEN resp.www ELSE FALSE]

----------------------------------------------------------------------------
(* The state after construction (main.ts:27-31). *)

Init ==
    /\ env \in EnvChoices
    /\ sessions = EmptyMap
    /\ transports = EmptyMap
    /\ tstate = EmptyMap
    /\ uuids = 0
    /\ now = 0
    /\ inflight = 0
    /\ proc = "running"
    /\ toClose = {}
    /\ signalled = {}
    /\ attempted = {}
    /\ streams = <<>>
    /\ last = Sent("none", Response)
    /\ issued = EmptyMap
    /\ consumed = {}
    /\ deleted = {}
    /\ exchanging = {}
    /\ registrations = 0
    /\ tokenFailed = FALSE

\* Time passes.
Tick ==
    /\ proc # "exited"
    /\ now < MaxTime
    /\ now' = now + 1
    /\ UNCHANGED <<env, sessions, transports, tstate, uuids, inflight, proc,
                   toClose, signalled, attempted, streams, last, issued, consumed, deleted>>
    /\ UNCHANGED oauthVars

----------------------------------------------------------------------------
(* GET /oauth/authorize (main.ts:179-215) *)

\* The URL the user agent is redirected to (main.ts:202-209).
HhAuthUrl(e, stateKey) ==
    SearchParamsSet(
      SearchParamsSet(
        SearchParamsSet(
          SearchParamsSet(ParseUrl("https://hh.ru/oauth/authorize"),
                          "client_id", OrElse(e.HH_CLIENT_ID, "")),
          "response_type", "code"),
        "redirect_uri", ConfiguredRedirectUri(e)),
      "state", stateKey)

\* The stored PendingAuthorization (main.ts:192-199).
PendingAuthorization(q, t) ==
    [originalRedirectUri |-> q.redirect_uri,
     originalState |-> q.state,
     clientId |-> q.client_id,
     codeChallenge |-> q.code_challenge,
     codeChallengeMethod |->
        IF q.code_challenge_method = Undefined THEN "S256"
        ELSE q.code_challenge_method,
     createdAt |-> t]

\* AuthorizeResult with the redirect_uri check left out.
AuthorizeResult_ClientIdOnly(q) ==
    IF ~Truthy(q.client_id)
    THEN [resp |-> [Response EXCEPT !.status = 400,
                                    !.error = "invalid_request"],
          sessions |-> sessions, stateKey |-> Undefined]
    ELSE LET stateKey == StateKeyOf(RandomUUID(uuids + 1)) IN
         [resp |-> [Response EXCEPT !.status = 302,
                                    !.location = HhAuthUrl(env, stateKey)],
          sessions |-> MapSet(sessions, stateKey, PendingAuthorization(q, now)),
          stateKey |-> stateKey]

\* The handler on query q in the current state: its response, the map after
\* it, and the state key when one was generated.
AuthorizeResult(q) ==
    IF ~Truthy(q.client_id) \/ ~Truthy(q.redirect_uri)
    THEN [resp |-> [Response EXCEPT !.status = 400,
                                    !.error = "invalid_request",
                                    !.error_description =
                                       "client_id and redirect_uri are required"],
          sessions |-> sessions, stateKey |-> Undefined]
    ELSE LET stateKey == StateKeyOf(RandomUUID(uuids + 1)) IN
         [resp |-> [Response EXCEPT !.status = 302,
                                    !.location = HhAuthUrl(env, stateKey)],
          sessions |-> MapSet(sessions, stateKey, PendingAuthorization(q, now)),
          stateKey |-> stateKey]

Authorize(q) ==
    /\ proc # "exited"
    /\ LET res == AuthorizeResult(q) IN
       /\ sessions' = res.sessions
       /\ last' = Sent("authorize", res.resp)
       /\ IF res.stateKey = Undefined
          THEN UNCHANGED <<uuids, issued>>
          ELSE /\ uuids < MaxUuid
               /\ uuids' = uuids + 1
               /\ issued' = MapSet(issued, res.stateKey, q)
    /\ UNCHANGED <<env, transports, tstate, now, inflight, proc, toClose, signalled, attempted, streams,
                   consumed, deleted>>
    /\ UNCHANGED oauthVars

----------------------------------------------------------------------------
(* GET /oauth/callback/debug (main.ts:287-327) *)

\* The redirect back to the caller (main.ts:319-326).
CallbackUrl(authSession, code) ==
    LET withCode == SearchParamsSet(ParseUrl(Get(authSession, "originalRedirectUri")),
                                    "code", code)
    IN IF Truthy(Get(authSession, "originalState"))
       THEN SearchParamsSet(withCode, "state", authSession.originalState)
       ELSE withCode

\* CallbackResult with sessions.delete(state) left out.
CallbackResult_NoDelete(q) ==
    IF Truthy(q.error) \/ ~Truthy(q.code) \/ ~Truthy(q.state)
    THEN [resp |-> [Response EXCEPT !.status = 400, !.error = "invalid_request"],
          sessions |-> sessions]
    ELSE IF q.state \notin DOMAIN sessions
    THEN [resp |-> [Response EXCEPT !.status = 400, !.error = "invalid_state"],
          sessions |-> sessions]
    ELSE [resp |-> IF ParseUrl(Get(sessions[q.state], "originalRedirectUri")).valid
                   THEN [Response EXCEPT !.status = 302,
                                         !.location = CallbackUrl(sessions[q.state], q.code)]
                   ELSE [Response EXCEPT !.status = 500],
          sessions |-> sessions]

\* CallbackResult looking at error only after the pending entry was found.
CallbackResult_ErrorLast(q) ==
    IF ~Truthy(q.code) \/ ~Truthy(q.state)
    THEN [resp |-> [Response EXCEPT !.status = 400, !.error = "invalid_request"],
          sessions |-> sessions]
    ELSE IF q.state \notin DOMAIN sessions
    THEN [resp |-> [Response EXCEPT !.status = 400, !.error = "invalid_state"],
          sessions |-> sessions]
    ELSE IF Truthy(q.error)
    THEN [resp |-> [Response EXCEPT !.status = 400, !.error = q.error,
                                    !.error_description = q.error_description],
          sessions |-> MapDelete(sessions, q.state)]
    ELSE [resp |-> IF ParseUrl(Get(sessions[q.state], "originalRedirectUri")).valid
                   THEN [Response EXCEPT !.status = 302,
                                         !.location = CallbackUrl(sessions[q.state], q.code)]
                   ELSE [Response EXCEPT !.status = 500],
          sessions |-> MapDelete(sessions, q.state)]

\* CallbackResult answering from the first pending entry it finds.
CallbackResult_AnyEntry(q) ==
    IF Truthy(q.error) \/ ~Truthy(q.code) \/ ~Truthy(q.state)
    THEN [resp |-> [Response EXCEPT !.status = 400, !.error = "invalid_request"],
          sessions |-> sessions]
    ELSE IF q.state \notin DOMAIN sessions
    THEN [resp |-> [Response EXCEPT !.status = 400, !.error = "invalid_state"],
          sessions |-> sessions]
    ELSE LET authSession == sessions[CHOOSE k \in DOMAIN sessions : TRUE] IN
         [resp |-> IF ParseUrl(Get(authSession, "originalRedirectUri")).valid
                   THEN [Response EXCEPT !.status = 302,
                                         !.location = CallbackUrl(authSession, q.code)]
                   ELSE [Response EXCEPT !.status = 500],
          sessions |-> MapDelete(sessions, q.state)]

\* The handler on query q in the current state: its response and the map
\* after it.
CallbackResult(q) ==
    IF Truthy(q.error)
    THEN [resp |-> [Response EXCEPT !.status = 400, !.error = q.error,
                                    !.error_description = q.error_description],
          sessions |-> sessions]
    ELSE IF ~Truthy(q.code) \/ ~Truthy(q.state)
    THEN [resp |-> [Response EXCEPT !.status = 400,
                                    !.error = "invalid_request",
                                    !.error_description =
                                       "Missing authorization code or state parameter"],
          sessions |-> sessions]
    ELSE IF q.state \notin DOMAIN sessions
    THEN [resp |-> [Response EXCEPT !.status = 400,
                                    !.error = "invalid_state",
                                    !.error_description =
                                       "Invalid or expired authorization request"],
          sessions |-> sessions]
    ELSE LET authSession == sessions[q.state] IN
         [resp |-> IF ParseUrl(Get(authSession, "originalRedirectUri")).valid
                   THEN [Response EXCEPT !.status = 302,
                                         !.location = CallbackUrl(authSession, q.code)]
                   ELSE \* new URL(...) throws after the entry was deleted;
                        \* the framework answers 500
                        [Response EXCEPT !.status = 500],
          sessions |-> MapDelete(sessions, q.state)]

Callback(q) ==
    /\ proc # "exited"
    /\ LET res == CallbackResult(q) IN
       /\ sessions' = res.sessions
       /\ last' = Sent("callback", res.resp)
       /\ IF res.resp.status \in {302, 500} /\ q.state \in DOMAIN issued
          THEN /\ consumed' = consumed \cup {q.state}
               /\ issued' = MapDelete(issued, q.state)
          ELSE UNCHANGED <<consumed, issued>>
    /\ UNCHANGED <<env, transports, tstate, uuids, now, inflight, proc, toClose, signalled, attempted, streams,
                   deleted>>
    /\ UNCHANGED oauthVars

----------------------------------------------------------------------------
(* requireAuth (main.ts:351-401) *)

\* The text "Bearer ", character by character.
BearerPrefix == <<"B", "e", "a", "r", "e", "r", " ">>

\* s.startsWith(p)
StartsWith(s, p) == Len(s) >= Len(p) /\ SubSeq(s, 1, Len(p)) = p

\* s.substring(n)
Substring(s, n) == SubSeq(s, n + 1, Len(s))

BearerTok == BearerPrefix \o <<"t", "o", "k">>

\* Authorization header values the model sends: none, another scheme,
\* "Bearer " with nothing after it, and "Bearer tok".
AuthHeaders ==
    { NoHeader, <<"B", "a", "s", "i", "c", " ", "x">>, BearerPrefix, BearerTok }

\* JSON-RPC bodies: an initialize request and any other request.
InitBody == [isInitialize |-> TRUE, id |-> "1"]
CallBody == [isInitialize |-> FALSE, id |-> "2"]

\* isInitializeRequest(req.body)
isInitializeRequest(body) == body.isInitialize

\* What a /mcp handler reads of its request.
McpRequest(m, s, b) == [method |-> m, sid |-> s, body |-> b]

Methods == {"POST", "GET", "DELETE"}

\* Mcp-Session-Id values the model sends.
SidValues(n) == KnownKeys(n) \cup {Undefined, InheritedKey}

McpRequests(n) ==
    { McpRequest(m, s, CallBody) : m \in Methods, s \in SidValues(n) }
    \cup
    { McpRequest("POST", s, InitBody) : s \in SidValues(n) }

\* What the fetch of https://api.hh.ru/me can come to: a 2xx answer, another
\* status, or a rejected promise (network failure).
FetchOutcomes == {"ok", "rejected", "failed"}

\* The synchronous part of requireAuth, up to the await (main.ts:352-371),
\* which reads the Authorization header alone: a response, or the request
\* suspended at the fetch.
ArriveResult(authHeader) ==
    IF authHeader = NoHeader \/ authHeader = <<>>
       \/ ~StartsWith(authHeader, BearerPrefix)
    THEN [suspended |-> FALSE,
          resp |-> [Response EXCEPT !.status = 401, !.www = TRUE,
                                    !.error = "Authorization required"]]
    ELSE IF Substring(authHeader, 7) = <<>>
    THEN [suspended |-> FALSE,
          resp |-> [Response EXCEPT !.status = 401, !.error = "Invalid token"]]
    ELSE [suspended |-> TRUE, resp |-> Response]

\* A /mcp request arrives.  A suspended request is only counted: nothing
\* reads the rest of it before the fetch settles, so McpValidated draws it.
McpArrive(authHeader) ==
    /\ proc # "exited"
    /\ LET res == ArriveResult(authHeader) IN
       IF res.suspended
       THEN /\ inflight < MaxInflight
            /\ inflight' = inflight + 1
            /\ UNCHANGED last
       ELSE /\ last' = Sent("mcp", res.resp)
            /\ UNCHANGED inflight
    /\ UNCHANGED <<env, sessions, transports, tstate, uuids, now, proc, toClose, signalled, attempted, streams,
                   issued, consumed, deleted>>
    /\ UNCHANGED oauthVars

----------------------------------------------------------------------------
(* The /mcp handlers, run by next() once the token is accepted.  Each      *)
(* gives the response and the stores after the handler.                    *)

Handled(resp, s, t, ts) ==
    [resp |-> resp, sessions |-> s, transports |-> t, tstate |-> ts]

\* obj[k] is truthy for a plain object: an own property or an inherited one.
HasProperty(obj, k) == k \in DOMAIN obj \/ k = InheritedKey

\* req.body?.id || null
BodyIdOrNull(body) == OrElse(body.id, "null")

\* onsessioninitialized leaving the registry as it was.
OnSessionInitialized_NotStored(reg, sessionId, transport) == reg

\* onsessioninitialized (main.ts:419-422): transports[sessionId] = transport
OnSessionInitialized(reg, sessionId, transport) == MapSet(reg, sessionId, transport)

\* McpPost finding the transport by the session id it announced, closed
\* or not, instead of through the registry.
McpPost_FindsClosed(r) ==
    LET sessionId == r.sid
        known == {t \in DOMAIN tstate : tstate[t].sessionId = sessionId}
    IN
    IF Truthy(sessionId) /\ known # {}
    THEN Handled([Response EXCEPT !.status = 200, !.sid = sessionId,
                                  !.found = TRUE,
                                  !.dispatched = CHOOSE t \in known : TRUE],
                 sessions, transports, tstate)
    ELSE IF ~Truthy(sessionId) /\ isInitializeRequest(r.body)
    THEN LET sid == RandomUUID(uuids + 1)
             tid == Cardinality(DOMAIN tstate) + 1
         IN Handled([Response EXCEPT !.status = 200, !.sid = sid,
                                     !.dispatched = tid],
                    sessions,
                    OnSessionInitialized(transports, sid, tid),
                    MapSet(tstate, tid, [sessionId |-> sid, closed |-> FALSE]))
    ELSE Handled([Response EXCEPT !.status = 400,
                                  !.error = "Bad Request: No valid session ID provided",
                                  !.id = "null"],
                 sessions, transports, tstate)

\* POST /mcp (main.ts:404-467)
McpPost(r) ==
    LET sessionId == r.sid IN
    IF Truthy(sessionId) /\ HasProperty(transports, sessionId)
    THEN IF sessionId \in DOMAIN transports
         THEN \* transports[sessionId].handleRequest(req, res, req.body)
              Handled([Response EXCEPT !.status = 200, !.sid = sessionId,
                                       !.found = TRUE,
                                       !.dispatched = transports[sessionId]],
                      sessions, transports, tstate)
         ELSE \* the inherited value has no handleRequest: TypeError, caught
              Handled([Response EXCEPT !.status = 500,
                                       !.error = "Internal error",
                                       !.found = TRUE,
                                       !.id = BodyIdOrNull(r.body)],
                      sessions, transports, tstate)
    ELSE IF ~Truthy(sessionId) /\ isInitializeRequest(r.body)
    THEN \* new transport; handleRequest draws the session id and calls
         \* onsessioninitialized, which registers the transport
         LET sid == RandomUUID(uuids + 1)
             tid == Cardinality(DOMAIN tstate) + 1
         IN Handled([Response EXCEPT !.status = 200, !.sid = sid,
                                     !.dispatched = tid],
                    sessions,
                    OnSessionInitialized(transports, sid, tid),
                    MapSet(tstate, tid, [sessionId |-> sid, closed |-> FALSE]))
    ELSE Handled([Response EXCEPT !.status = 400,
                                  !.error = "Bad Request: No valid session ID provided",
                                  !.id = "null"],
                 sessions, transports, tstate)

\* getOrCreateSession (main.ts:330-348): the session id and the map after it.
getOrCreateSession(sid, uuid, t) ==
    IF ~Truthy(sid) \/ sid \notin DOMAIN sessions
    THEN [sessionId |-> uuid, created |-> TRUE,
          sessions |-> MapSet(sessions, uuid,
                         [id |-> uuid, createdAt |-> t, lastAccessAt |-> t])]
    ELSE [sessionId |-> sid, created |-> FALSE,
          sessions |-> MapSet(sessions, sid,
                         [f \in DOMAIN sessions[sid] \cup {"lastAccessAt"} |->
                            IF f = "lastAccessAt" THEN t ELSE sessions[sid][f]])]

\* GET /mcp (main.ts:470-502)
McpGet(r) ==
    LET got == getOrCreateSession(r.sid, RandomUUID(uuids + 1), now) IN
    Handled([Response EXCEPT !.status = 200, !.sid = got.sessionId,
                             !.found = ~got.created],
            got.sessions, transports, tstate)

\* McpDelete with sessions.delete(sessionId) left out.
McpDelete_KeepsSession(r) ==
    IF Truthy(r.sid) /\ r.sid \in DOMAIN sessions
    THEN Handled([Response EXCEPT !.status = 200, !.found = TRUE],
                 sessions, transports, tstate)
    ELSE Handled([Response EXCEPT !.status = 404, !.error = "Session not found"],
                 sessions, transports, tstate)

\* DELETE /mcp (main.ts:505-514)
McpDelete(r) ==
    LET sessionId == r.sid IN
    IF Truthy(sessionId) /\ sessionId \in DOMAIN sessions
    THEN Handled([Response EXCEPT !.status = 200, !.found = TRUE],
                 MapDelete(sessions, sessionId), transports, tstate)
    ELSE Handled([Response EXCEPT !.status = 404, !.error = "Session not found"],
                 sessions, transports, tstate)

\* McpResult going on to the handler when the fetch fails.
McpResult_FailureRunsHandler(r, outcome) ==
    CASE outcome = "rejected" ->
           Handled([Response EXCEPT !.status = 401, !.www = TRUE,
                                    !.error = "Invalid or expired token"],
                   sessions, transports, tstate)
      [] outcome \in {"ok", "failed"} /\ r.method = "POST" -> McpPost(r)
      [] outcome \in {"ok", "failed"} /\ r.method = "GET" -> McpGet(r)
      [] outcome \in {"ok", "failed"} /\ r.method = "DELETE" -> McpDelete(r)

\* McpResult trusting a token once a session exists under the id presented.
McpResult_RemembersToken(r, outcome) ==
    CASE outcome = "failed" ->
           Handled([Response EXCEPT !.status = 500,
                                    !.error = "Token validation failed"],
                   sessions, transports, tstate)
      [] outcome = "rejected"
           /\ r.sid \notin DOMAIN transports \cup DOMAIN sessions ->
           Handled([Response EXCEPT !.status = 401, !.www = TRUE,
                                    !.error = "Invalid or expired token"],
                   sessions, transports, tstate)
      [] outcome = "rejected" /\ r.sid \in DOMAIN transports \cup DOMAIN sessions
           /\ r.method = "POST" -> McpPost(r)
      [] outcome = "rejected" /\ r.sid \in DOMAIN transports \cup DOMAIN sessions
           /\ r.method = "GET" -> McpGet(r)
      [] outcome = "rejected" /\ r.sid \in DOMAIN transports \cup DOMAIN sessions
           /\ r.method = "DELETE" -> McpDelete(r)
      [] outcome = "ok" /\ r.method = "POST" -> McpPost(r)
      [] outcome = "ok" /\ r.method = "GET" -> McpGet(r)
      [] outcome = "ok" /\ r.method = "DELETE" -> McpDelete(r)

\* The rest of requireAuth once the fetch has settled (main.ts:378-400),
\* and on success the handler of the route.
McpResult(r, outcome) ==
    CASE outcome = "rejected" ->
           Handled([Response EXCEPT !.status = 401, !.www = TRUE,
                                    !.error = "Invalid or expired token"],
                   sessions, transports, tstate)
      [] outcome = "failed" ->
           Handled([Response EXCEPT !.status = 500,
                                    !.error = "Token validation failed"],
                   sessions, transports, tstate)
      [] outcome = "ok" /\ r.method = "POST" -> McpPost(r)
      [] outcome = "ok" /\ r.method = "GET" -> McpGet(r)
      [] outcome = "ok" /\ r.method = "DELETE" -> McpDelete(r)

\* How many UUIDs the stores after a handler hold beyond those before it.
Drawn(res) ==
    Cardinality((DOMAIN res.sessions \cup DOMAIN res.transports)
                \ (DOMAIN sessions \cup DOMAIN transports))

\* The event stream GET /mcp sets up (main.ts:473-501): the response is
\* held open, setInterval starts the heartbeat timer, and two listeners
\* for the request's 'close' event are attached.  The listeners only hear
\* a 'close' emitted after they were attached: when the client went away
\* while requireAuth was waiting, the stream starts ended and its timer
\* runs with nothing left to clear it.
OpenStream(sessionId, connected) ==
    [sid |-> sessionId, open |-> connected, timer |-> TRUE,
     beats |-> 0, late |-> FALSE]

\* The streams once the handler of r has answered.
StreamsAfter(r, outcome, resp, connected) ==
    IF r.method = "GET" /\ outcome = "ok"
    THEN Append(streams, OpenStream(resp.sid, connected))
    ELSE streams

\* The fetch of requireAuth settles for one suspended request: r is the
\* request, outcome what the fetch came to, connected whether the client is
\* still there.
McpValidated(r, outcome, connected) ==
    /\ proc # "exited"
    /\ inflight > 0
    /\ inflight' = inflight - 1
    /\ LET res == McpResult(r, outcome) IN
       /\ uuids + Drawn(res) <= MaxUuid
       /\ uuids' = uuids + Drawn(res)
       /\ sessions' = res.sessions
       /\ transports' = res.transports
       /\ tstate' = res.tstate
       /\ last' = Sent(r.method, res.resp)
       /\ deleted' = IF r.method = "DELETE" /\ res.resp.status = 200
                     THEN deleted \cup {r.sid} ELSE deleted
       /\ streams' = StreamsAfter(r, outcome, res.resp, connected)
       /\ Len(streams') <= MaxStreams
    /\ UNCHANGED <<env, now, proc, toClose, signalled, attempted, issued, consumed>>
    /\ UNCHANGED oauthVars

\* The keepAlive callback of stream i runs (main.ts:493-497): three
\* res.write calls, on the open stream or on one that has ended.
Heartbeat(i) ==
    /\ proc # "exited"
    /\ i \in 1..Len(streams)
    /\ streams[i].timer
    /\ IF streams[i].open
       THEN /\ streams[i].beats < MaxBeats
            /\ streams' = [streams EXCEPT ![i].beats = @ + 1]
       ELSE /\ ~streams[i].late
            /\ streams' = [streams EXCEPT ![i].late = TRUE]
    /\ UNCHANGED <<env, sessions, transports, tstate, uuids, now, inflight, proc,
                   toClose, signalled, attempted, last, issued, consumed, deleted>>
    /\ UNCHANGED oauthVars

\* The two 'close' listeners of a stream (main.ts:488-490, 499-501):
\* res.end() and clearInterval(keepAlive).
OnReqClose(stream) == [stream EXCEPT !.open = FALSE, !.timer = FALSE]

\* The client of stream i disconnects and the request emits 'close'.
Disconnect(i) ==
    /\ proc # "exited"
    /\ i \in 1..Len(streams)
    /\ streams[i].open
    /\ streams' = [streams EXCEPT ![i] = OnReqClose(streams[i])]
    /\ UNCHANGED <<env, sessions, transports, tstate, uuids, now, inflight, proc,
                   toClose, signalled, attempted, last, issued, consumed, deleted>>
    /\ UNCHANGED oauthVars

----------------------------------------------------------------------------
(* SIGINT / SIGTERM (main.ts:547-587) *)

\* The handler between two turns of its loop: with keys left to visit that
\* are still registered it awaits the next close(); with none, the loop is
\* over and process.exit(0) follows in the same turn of the event loop.
Exit(rest, reg) ==
    IF rest \cap DOMAIN reg = {}
    THEN /\ proc' = "exited"
         /\ toClose' = {}
         /\ inflight' = 0
    ELSE /\ proc' = "closing"
         /\ toClose' = rest
         /\ UNCHANGED inflight

\* The handler starts: for (const sessionId in transports) visits the keys
\* the object has now.
Signal ==
    /\ proc = "running"
    /\ signalled' = DOMAIN transports
    /\ Exit(DOMAIN transports, transports)
    /\ UNCHANGED <<env, sessions, transports, tstate, uuids, now,
                   last, issued, consumed, deleted, attempted, streams>>
    /\ UNCHANGED oauthVars

\* transport.onclose (main.ts:426-432): the registry after it ran for the
\* transport whose session id is sid.
OnClose(reg, sid) ==
    IF Truthy(sid) /\ sid \in DOMAIN reg THEN MapDelete(reg, sid) ELSE reg

\* What a close() call may come to: it resolves, or it throws.
CloseOutcomes == {"closed", "threw"}

\* Remaining with a throwing close() ending the loop.
Remaining_AbortsOnFailure(rest, sessionId, outcome) ==
    IF outcome = "closed" THEN rest \ {sessionId} ELSE {}

\* The keys the for-in still has to visit after the turn for sessionId: the
\* try/catch inside the loop body keeps the loop going when close() throws
\* (main.ts:551-562).
Remaining(rest, sessionId, outcome) == rest \ {sessionId}

\* One turn of the loop: await transports[sessionId].close(), which runs
\* onclose, then delete transports[sessionId]; when close() throws, the
\* catch logs and the entry stays.  Keys are visited in insertion order.
CloseNext(outcome) ==
    /\ proc = "closing"
    /\ toClose \cap DOMAIN transports # {}
    /\ LET sessionId == CHOOSE k \in toClose \cap DOMAIN transports :
                          \A j \in toClose \cap DOMAIN transports :
                             transports[k] <= transports[j]
           tid == transports[sessionId]
       IN /\ IF outcome = "closed"
             THEN /\ tstate' = [tstate EXCEPT ![tid].closed = TRUE]
                  /\ transports' = MapDelete(OnClose(transports, tstate[tid].sessionId),
                                             sessionId)
             ELSE UNCHANGED <<tstate, transports>>
          /\ Exit(Remaining(toClose, sessionId, outcome), transports')
          /\ attempted' = attempted \cup {sessionId}
    /\ UNCHANGED <<env, sessions, uuids, now, last, issued, consumed, deleted,
                   signalled, streams>>
    /\ UNCHANGED oauthVars

----------------------------------------------------------------------------
(* POST /oauth/token (main.ts:218-284) *)

TokenBody(g, c, code, r, v) ==
    [grant_type |-> g, client_id |-> c, code |-> code, redirect_uri |-> r,
     code_verifier |-> v]

\* The form bodies the model sends.
TokenBodies ==
    { TokenBody("authorization_code", "client-a", "code-1", UriPlain, Undefined),
      TokenBody("authorization_code", "client-a", "code-1", UriQuery, Undefined),
      TokenBody("authorization_code", "client-a", "code-1",
                "https://facade.example/oauth/callback/debug", Undefined),
      TokenBody("authorization_code", "client-b", "code-2", UriPlain, "verifier"),
      TokenBody("authorization_code", "client-b", "code-2", UriBad, "verifier"),
      TokenBody("refresh_token", "client-a", "code-1", UriPlain, Undefined),
      TokenBody(Undefined, "client-a", "code-1", UriPlain, Undefined),
      TokenBody("authorization_code", "", "code-1", UriPlain, Undefined),
      TokenBody("authorization_code", "client-a", Undefined, UriPlain, Undefined),
      TokenBody("authorization_code", "client-a", "code-1", Undefined, "verifier") }

\* TokenParams passing the caller's redirect_uri on.
TokenParams_CallerRedirectUri(e, body) ==
    [grant_type |-> "authorization_code",
     client_id |-> OrElse(e.HH_CLIENT_ID, ""),
     client_secret |-> OrElse(e.HH_CLIENT_SECRET, ""),
     code |-> body.code,
     redirect_uri |-> body.redirect_uri,
     code_verifier |-> IF Truthy(body.code_verifier) THEN body.code_verifier
                       ELSE Undefined]

\* tokenParams, the form sent to https://api.hh.ru/token (main.ts:231-245).
TokenParams(e, body) ==
    [grant_type |-> "authorization_code",
     client_id |-> OrElse(e.HH_CLIENT_ID, ""),
     client_secret |-> OrElse(e.HH_CLIENT_SECRET, ""),
     code |-> body.code,
     redirect_uri |-> ConfiguredRedirectUri(e),
     code_verifier |-> IF Truthy(body.code_verifier) THEN body.code_verifier
                       ELSE Undefined]

NoParams == TokenParams(EnvEmpty, TokenBody(Undefined, Undefined, Undefined, Undefined, Undefined))

\* A response of the token route: status, error and the JSON object sent.
TokenResponse(status, error, json) == [status |-> status, error |-> error, json |-> json]

\* TokenArriveResult with the check of code left out.
TokenArriveResult_NoCodeCheck(body) ==
    IF body.grant_type # "authorization_code" \/ ~Truthy(body.client_id)
       \/ ~Truthy(body.redirect_uri)
    THEN [suspended |-> FALSE, tokenParams |-> NoParams,
          resp |-> TokenResponse(400, "invalid_request", EmptyMap)]
    ELSE [suspended |-> TRUE, tokenParams |-> TokenParams(env, body),
          resp |-> TokenResponse(0, Undefined, EmptyMap)]

\* TokenArriveResult refusing a client that has no authorization on record.
TokenArriveResult_ChecksPending(body) ==
    IF body.grant_type # "authorization_code" \/ ~Truthy(body.client_id)
       \/ ~Truthy(body.code) \/ ~Truthy(body.redirect_uri)
    THEN [suspended |-> FALSE, tokenParams |-> NoParams,
          resp |-> TokenResponse(400, "invalid_request", EmptyMap)]
    ELSE IF \A k \in DOMAIN sessions : Get(sessions[k], "clientId") # body.client_id
    THEN [suspended |-> FALSE, tokenParams |-> NoParams,
          resp |-> TokenResponse(400, "invalid_grant", EmptyMap)]
    ELSE [suspended |-> TRUE, tokenParams |-> TokenParams(env, body),
          resp |-> TokenResponse(0, Undefined, EmptyMap)]

\* The handler up to the await (main.ts:219-250): a response, or the
\* request suspended with the upstream request it has sent.
TokenArriveResult(body) ==
    IF body.grant_type # "authorization_code" \/ ~Truthy(body.client_id)
       \/ ~Truthy(body.code) \/ ~Truthy(body.redirect_uri)
    THEN [suspended |-> FALSE, tokenParams |-> NoParams,
          resp |-> TokenResponse(400, "invalid_request", EmptyMap)]
    ELSE [suspended |-> TRUE, tokenParams |-> TokenParams(env, body),
          resp |-> TokenResponse(0, Undefined, EmptyMap)]

TokenArrive(body) ==
    /\ proc # "exited"
    /\ LET res == TokenArriveResult(body) IN
       IF res.suspended
       THEN /\ Cardinality(exchanging) < MaxExchanging
            /\ exchanging' = exchanging \cup
                               {[body |-> body, tokenParams |-> res.tokenParams]}
            /\ UNCHANGED last
       ELSE /\ last' = Sent("token", res.resp)
            /\ UNCHANGED exchanging
    /\ UNCHANGED <<env, sessions, transports, tstate, uuids, now, inflight, proc,
                   toClose, signalled, attempted, streams, issued, consumed, deleted, registrations, tokenFailed>>

\* What the upstream token endpoint may answer with on success.
TokenDatas ==
    { [access_token |-> "at-1", token_type |-> "bearer"],
      [access_token |-> "at-2", token_type |-> "bearer",
       refresh_token |-> "rt-2", issuer |-> "https://hh.ru"] }

\* What the fetch can come to: a 2xx answer with a JSON body, another
\* status, a rejected promise (network failure), or a 2xx answer whose body
\* tokenResponse.json() cannot parse.
TokenOutcomes ==
    { [kind |-> "ok", data |-> d] : d \in TokenDatas }
    \cup { [kind |-> k, data |-> EmptyMap] : k \in {"rejected", "failed", "unparsable"} }

\* TokenSettledResult passing the upstream answer on as it is.
TokenSettledResult_UpstreamIssuer(e, outcome) ==
    CASE outcome.kind = "rejected" -> TokenResponse(400, "invalid_grant", EmptyMap)
      [] outcome.kind \in {"failed", "unparsable"} ->
           TokenResponse(500, "server_error", EmptyMap)
      [] outcome.kind = "ok" -> TokenResponse(200, Undefined, outcome.data)

\* The handler after the await (main.ts:259-283).
TokenSettledResult(e, outcome) ==
    CASE outcome.kind = "rejected" -> TokenResponse(400, "invalid_grant", EmptyMap)
      [] outcome.kind \in {"failed", "unparsable"} ->
           \* the catch block
           TokenResponse(500, "server_error", EmptyMap)
      [] outcome.kind = "ok" ->
           \* { ...tokenData, issuer: `http://${env.HOST}:${env.PORT}` }
           TokenResponse(200, Undefined, MapSet(outcome.data, "issuer", BaseUrl(e)))

TokenSettled(x, outcome) ==
    /\ proc # "exited"
    /\ x \in exchanging
    /\ exchanging' = exchanging \ {x}
    /\ last' = Sent("token", TokenSettledResult(env, outcome))
    /\ tokenFailed' = (tokenFailed \/ outcome.kind = "failed")
    /\ UNCHANGED <<env, sessions, transports, tstate, uuids, now, inflight, proc,
                   toClose, signalled, attempted, streams, issued, consumed, deleted, registrations>>

----------------------------------------------------------------------------
(* POST /oauth/register (main.ts:96-154) *)

\* JSON values of a registration body: undefined (absent), a string, a
\* number (kept as its text) or an array of strings.
JUndef == [t |-> "undefined", s |-> "", a |-> <<>>]
JStr(x) == [t |-> "string", s |-> x, a |-> <<>>]
JNum(x) == [t |-> "number", s |-> x, a |-> <<>>]
JArr(xs) == [t |-> "array", s |-> "", a |-> xs]

\* !v is false
JTruthy(v) ==
    CASE v.t = "undefined" -> FALSE
      [] v.t = "string" -> v.s # ""
      [] v.t = "number" -> v.s # "0"
      [] v.t = "array" -> TRUE

\* Array.isArray(v)
IsArray(v) == v.t = "array"

\* A destructuring default: used when the property is undefined.
Default(v, d) == IF v.t = "undefined" THEN d ELSE v

\* The bodies the model sends.
RegisterBodies ==
    [client_name : {JUndef, JStr(""), JStr("test"), JNum("7")},
     grant_types : {JUndef, JArr(<<"authorization_code", "refresh_token">>)},
     response_types : {JUndef},
     redirect_uris : {JUndef, JStr(UriPlain), JArr(<<>>), JArr(<<UriPlain>>),
                      JArr(<<UriQuery, UriPlain>>), JArr(<<UriBad>>)},
     scope : {JUndef, JStr("read")}]

RegisterResponse(status, error, json) == [status |-> status, error |-> error, json |-> json]

\* RegisterResult minting a client id per registration.
RegisterResult_MintsClientId(body) ==
    IF ~JTruthy(body.client_name)
    THEN RegisterResponse(400, "invalid_client_metadata", EmptyMap)
    ELSE IF ~JTruthy(body.redirect_uris) \/ ~IsArray(body.redirect_uris)
            \/ Len(body.redirect_uris.a) = 0
    THEN RegisterResponse(400, "invalid_redirect_uri", EmptyMap)
    ELSE IF ~Truthy(env.HH_CLIENT_ID)
    THEN RegisterResponse(503, "oauth_not_configured", EmptyMap)
    ELSE RegisterResponse(200, Undefined,
           [client_id |-> JStr(env.HH_CLIENT_ID \o "-" \o ToString(registrations)),
            client_name |-> body.client_name,
            grant_types |-> Default(body.grant_types, JArr(<<"authorization_code">>)),
            response_types |-> Default(body.response_types, JArr(<<"code">>)),
            redirect_uris |-> body.redirect_uris,
            scope |-> Default(body.scope, JStr("")),
            token_endpoint_auth_method |-> JStr("client_secret_basic"),
            client_id_issued_at |-> JNum(ToString(now))])

\* The handler on a body in the current state.
RegisterResult(body) ==
    LET grant_types == Default(body.grant_types, JArr(<<"authorization_code">>))
        response_types == Default(body.response_types, JArr(<<"code">>))
        scope == Default(body.scope, JStr(""))
    IN
    IF ~JTruthy(body.client_name)
    THEN RegisterResponse(400, "invalid_client_metadata", EmptyMap)
    ELSE IF ~JTruthy(body.redirect_uris) \/ ~IsArray(body.redirect_uris)
            \/ Len(body.redirect_uris.a) = 0
    THEN RegisterResponse(400, "invalid_redirect_uri", EmptyMap)
    ELSE IF ~Truthy(env.HH_CLIENT_ID)
    THEN RegisterResponse(503, "oauth_not_configured", EmptyMap)
    ELSE RegisterResponse(200, Undefined,
           [client_id |-> JStr(env.HH_CLIENT_ID),
            client_name |-> body.client_name,
            grant_types |-> grant_types,
            response_types |-> response_types,
            redirect_uris |-> body.redirect_uris,
            scope |-> scope,
            token_endpoint_auth_method |-> JStr("client_secret_basic"),
            client_id_issued_at |-> JNum(ToString(now))])

Register(body) ==
    /\ proc # "exited"
    /\ LET res == RegisterResult(body) IN
       /\ last' = Sent("register", res)
       /\ IF res.status = 200
          THEN /\ registrations < MaxRegistrations
               /\ registrations' = registrations + 1
          ELSE UNCHANGED registrations
    /\ UNCHANGED <<env, sessions, transports, tstate, uuids, now, inflight, proc,
                   toClose, signalled, attempted, streams, issued, consumed, deleted, exchanging, tokenFailed>>

----------------------------------------------------------------------------
(* The facade serving authorization flows and /mcp requests. *)

Next ==
    \/ \E q \in AuthorizeQueries : Authorize(q)
    \/ \E q \in CallbackQueries(uuids) : Callback(q)
    \/ \E a \in AuthHeaders : McpArrive(a)
    \/ \E r \in McpRequests(uuids) : McpValidated(r, "ok", TRUE)
    \/ \E r \in McpRequests(uuids), o \in FetchOutcomes \ {"ok"} :
          McpValidated(r, o, TRUE)
    \/ Signal
    \/ \E o \in CloseOutcomes : CloseNext(o)

Spec == Init /\ [][Next]_vars

----------------------------------------------------------------------------
(* The facade serving registrations and token exchanges. *)

NextOAuth ==
    \/ \E body \in RegisterBodies : Register(body)
    \/ \E body \in TokenBodies : TokenArrive(body)
    \/ \E x \in exchanging, o \in TokenOutcomes : TokenSettled(x, o)

SpecOAuth == Init /\ [][NextOAuth]_vars

----------------------------------------------------------------------------
(* The two routes that call upstream: /mcp behind requireAuth and the      *)
(* token exchange.                                                         *)

NextUpstream ==
    \/ \E a \in AuthHeaders : McpArrive(a)
    \/ \E r \in McpRequests(uuids), o \in FetchOutcomes : McpValidated(r, o, TRUE)
    \/ \E body \in TokenBodies : TokenArrive(body)
    \/ \E x \in exchanging, o \in TokenOutcomes : TokenSettled(x, o)

SpecUpstream == Init /\ [][NextUpstream]_vars

----------------------------------------------------------------------------
(* The authorization flow from authorize to the token exchange. *)

NextFlows ==
    \/ \E q \in AuthorizeQueries : Authorize(q)
    \/ \E q \in CallbackQueries(uuids) : Callback(q)
    \/ \E body \in TokenBodies : TokenArrive(body)
    \/ \E x \in exchanging, o \in TokenOutcomes : TokenSettled(x, o)

SpecFlows == Init /\ [][NextFlows]_vars

----------------------------------------------------------------------------
(* The /mcp routes with their event streams, while time passes. *)

NextSessions ==
    \/ \E a \in AuthHeaders : McpArrive(a)
    \/ \E r \in McpRequests(uuids), connected \in BOOLEAN :
          McpValidated(r, "ok", connected)
    \/ \E r \in McpRequests(uuids), o \in FetchOutcomes \ {"ok"} :
          McpValidated(r, o, TRUE)
    \/ \E i \in 1..MaxStreams : Heartbeat(i)
    \/ \E i \in 1..MaxStreams : Disconnect(i)
    \/ Tick

SpecSessions == Init /\ [][NextSessions]_vars

----------------------------------------------------------------------------
(* Properties.  The response to a request is what the handler's result     *)
(* operator gives in the state the request is served in, so a property of  *)
(* every response is an invariant over every request in every state.       *)

\* A callback that carries a code and no error parameter.
CarriesCode(q) == Truthy(q.code) /\ ~Truthy(q.error)

\* C1: once a callback has consumed the pending authorization stored under
\* state key K, every later callback carrying state=K is answered 400 and
\* issues no redirect, and a callback repeating (code, state=K) is answered
\* invalid_state, whatever happened in between.
C1_StateKeySingleUse ==
    \A q \in CallbackQueries(uuids) :
        q.state \in consumed =>
            LET res == CallbackResult(q) IN
            /\ res.resp.status = 400
            /\ res.resp.location = NoUrl
            /\ res.sessions = sessions
            /\ CarriesCode(q) => res.resp.error = "invalid_state"

\* A key was consumed, other entries are pending, and a callback has just
\* been refused with invalid_state.
C1_Witness ==
    /\ consumed # {}
    /\ sessions # EmptyMap
    /\ last = Sent("callback", [Response EXCEPT !.status = 400,
                                                !.error = "invalid_state"])

\* "Exactly R with code=C and state=S added when S was supplied."
ExpectedRedirect(R, S, C) ==
    LET u == ParseUrl(R) IN
    [u EXCEPT !.params = u.params \o <<<<"code", C>>>> \o
                         (IF S = Undefined THEN <<>> ELSE <<<<"state", S>>>>)]

\* C2: a callback carrying code=C and the state key generated for an
\* accepted authorize request (redirect_uri=R, state=S) is answered 302 to
\* exactly R with code=C, and state=S when S was supplied.
C2_RoundTrip ==
    \A q \in CallbackQueries(uuids) :
        (/\ CarriesCode(q)
         /\ q.state \in DOMAIN issued
         /\ ParseUrl(issued[q.state].redirect_uri).valid) =>
            LET res == CallbackResult(q) IN
            /\ res.resp.status = 302
            /\ res.resp.location =
                  ExpectedRedirect(issued[q.state].redirect_uri,
                                   issued[q.state].state, q.code)

\* The stores a /mcp handler can touch are as before.
StoresUntouched(res) ==
    /\ res.sessions = sessions
    /\ res.transports = transports
    /\ res.tstate = tstate

\* C3: every /mcp request without a valid bearer token (no header, another
\* scheme, an empty token, a token upstream rejects) is answered 401 with a
\* WWW-Authenticate header and leaves the session map and the transport
\* registry as they were.
C3_UnauthenticatedRejected ==
    /\ \A a \in AuthHeaders :
          ~ArriveResult(a).suspended => ArriveResult(a).resp.status = 401
    /\ \A r \in McpRequests(uuids) :
          LET res == McpResult(r, "rejected") IN
          /\ res.resp.status = 401
          /\ res.resp.www
          /\ StoresUntouched(res)
    /\ last.status = 401 => last.www

\* An authorize query that lacks client_id or redirect_uri.
LacksRequired(q) == ~Truthy(q.client_id) \/ ~Truthy(q.redirect_uri)

\* C5: a GET /oauth/authorize lacking client_id or redirect_uri is answered
\* 400 invalid_request, stores no pending authorization and redirects
\* nowhere.
C5_AuthorizeRejectsIncomplete ==
    \A q \in AuthorizeQueries :
        LacksRequired(q) =>
            LET res == AuthorizeResult(q) IN
            /\ res.resp.status = 400
            /\ res.resp.error = "invalid_request"
            /\ res.resp.location = NoUrl
            /\ res.stateKey = Undefined
            /\ res.sessions = sessions

\* An incomplete authorize request has just been refused while
\* authorizations are pending.
C5_Witness ==
    /\ sessions # EmptyMap
    /\ last = Sent("authorize", [Response EXCEPT !.status = 400,
                                                 !.error = "invalid_request"])

\* An entry of the session map made by getOrCreateSession.
IsMcpSession(k) == k \in DOMAIN sessions /\ "id" \in DOMAIN sessions[k]

\* The transports that are open.
LiveTransports == {t \in DOMAIN tstate : ~tstate[t].closed}

\* C7: no session id is held by two live sessions, and once DELETE /mcp has
\* removed session id X a request presenting X finds no record under it: a
\* GET makes a fresh session under a new id.
C7_SessionIdsNotReused ==
    /\ \A t1, t2 \in LiveTransports :
          t1 # t2 => tstate[t1].sessionId # tstate[t2].sessionId
    /\ \A k \in DOMAIN sessions :
          IsMcpSession(k) =>
              /\ sessions[k].id = k
              /\ \A t \in LiveTransports : tstate[t].sessionId # k
    /\ \A r \in McpRequests(uuids) :
          r.sid \in deleted =>
              LET res == McpResult(r, "ok") IN
              /\ ~res.resp.found
              /\ r.method = "GET" =>
                    /\ res.resp.sid \notin deleted
                    /\ res.resp.sid \notin DOMAIN sessions
                    /\ res.resp.sid \in DOMAIN res.sessions

\* A session was deleted, and a later GET has been served while a session
\* and a transport are live.
C7_Witness ==
    /\ deleted # {}
    /\ last = Sent("GET", [Response EXCEPT !.status = 200])
    /\ \E k \in DOMAIN sessions : IsMcpSession(k) /\ k \notin deleted

\* C8: state keys and session ids are separate namespaces: no key is both a
\* pending authorization and a session, and no /mcp request, whatever
\* Mcp-Session-Id it carries, reads, refreshes or deletes a pending
\* authorization.
C8_SeparateNamespaces ==
    /\ \A k \in DOMAIN sessions :
          ~(IsMcpSession(k) /\ k \in DOMAIN issued) /\ k \notin DOMAIN transports
    /\ \A r \in McpRequests(uuids) :
          \A k \in DOMAIN sessions \cap DOMAIN issued :
              LET res == McpResult(r, "ok") IN
              /\ k \in DOMAIN res.sessions
              /\ res.sessions[k] = sessions[k]
              /\ ~(res.resp.found /\ r.sid = k)

\* C9: an authenticated POST /mcp with neither the session id of a
\* registered transport nor an initialize payload is answered 400 with a
\* JSON-RPC error whose id is null, reaches no transport and creates
\* nothing.
C9_InvalidPostRejected ==
    \A r \in McpRequests(uuids) :
        (/\ r.method = "POST"
         /\ r.sid \notin DOMAIN transports
         /\ ~isInitializeRequest(r.body)) =>
            LET res == McpResult(r, "ok") IN
            /\ res.resp.status = 400
            /\ res.resp.id = "null"
            /\ res.resp.dispatched = 0
            /\ StoresUntouched(res)

\* C10: an authenticated DELETE /mcp naming a session that holds a
\* transport closes the transport and removes its registry entry, and a
\* closed transport is never registered.
C10_DeleteTearsDown ==
    /\ \A r \in McpRequests(uuids) :
          (r.method = "DELETE" /\ r.sid \in DOMAIN transports) =>
              LET res == McpResult(r, "ok") IN
              /\ r.sid \notin DOMAIN res.transports
              /\ res.tstate[transports[r.sid]].closed
    /\ \A t \in DOMAIN tstate :
          tstate[t].closed => tstate[t].sessionId \notin DOMAIN transports

\* The body with the caller's redirect_uri replaced.
WithRedirectUri(body, uri) == [body EXCEPT !.redirect_uri = uri]

\* C4: the redirect_uri sent to the upstream token endpoint is the facade's
\* configured one, and accepted token requests that differ only in the
\* caller's redirect_uri send identical upstream requests.
C4_FixedUpstreamRedirectUri ==
    /\ \A x \in exchanging :
          x.tokenParams.redirect_uri = ConfiguredRedirectUri(env)
    /\ \A x, y \in exchanging :
          WithRedirectUri(x.body, y.body.redirect_uri) = y.body =>
              x.tokenParams = y.tokenParams
    /\ \A b1, b2 \in TokenBodies :
          (/\ TokenArriveResult(b1).suspended
           /\ TokenArriveResult(b2).suspended
           /\ WithRedirectUri(b1, b2.redirect_uri) = b2) =>
              TokenArriveResult(b1).tokenParams = TokenArriveResult(b2).tokenParams

\* Two token requests that differ only in the caller's redirect_uri are
\* both waiting for the upstream answer.
C4_Witness ==
    \E x, y \in exchanging :
        /\ x.body.redirect_uri # y.body.redirect_uri
        /\ WithRedirectUri(x.body, y.body.redirect_uri) = y.body

\* A registration body with a non-empty client_name and a non-empty list of
\* redirect URIs.
ValidRegistration(body) ==
    /\ body.client_name.t = "string" /\ body.client_name.s # ""
    /\ body.redirect_uris.t = "array" /\ Len(body.redirect_uris.a) > 0

\* C6: with a configured upstream client id, every valid registration is
\* answered with that client id and the request's redirect_uris unchanged,
\* whatever was registered before.
C6_RegisterReturnsConfiguredClient ==
    \A body \in RegisterBodies :
        (ValidRegistration(body) /\ Truthy(env.HH_CLIENT_ID)) =>
            LET res == RegisterResult(body) IN
            /\ res.status = 200
            /\ res.json.client_id = JStr(env.HH_CLIENT_ID)
            /\ res.json.redirect_uris = body.redirect_uris

\* Two registrations have succeeded.
C6_Witness ==
    /\ registrations >= 2
    /\ last.op = "register" /\ last.status = 200

\* C11: for an accepted token request the response follows the upstream
\* answer: a non-success status gives 400 invalid_grant, and a success gives
\* the upstream token object with every field unchanged except issuer,
\* which is the facade's base URL.
C11_TokenResponseFollowsUpstream ==
    \A o \in TokenOutcomes :
        LET res == TokenSettledResult(env, o) IN
        /\ o.kind = "rejected" =>
              res.status = 400 /\ res.error = "invalid_grant"
        /\ o.kind = "ok" =>
              /\ res.status = 200
              /\ DOMAIN res.json = DOMAIN o.data \cup {"issuer"}
              /\ res.json.issuer = BaseUrl(env)
              /\ \A f \in DOMAIN o.data \ {"issuer"} : res.json[f] = o.data[f]

\* An upstream answer has been passed on while another accepted request
\* waits for its own.
C11_Witness ==
    /\ last = Sent("token", TokenResponse(200, Undefined, EmptyMap))
    /\ exchanging # {}

\* A token form the handler's first check refuses.
Incomplete(body) ==
    \/ body.grant_type # "authorization_code"
    \/ body.client_id \in {Undefined, ""}
    \/ body.code \in {Undefined, ""}
    \/ body.redirect_uri \in {Undefined, ""}

C13_UpstreamFailureAnswered500 ==
    /\ \A r \in McpRequests(uuids) :
          LET res == McpResult(r, "failed") IN
          /\ res.resp.status = 500
          /\ res.resp.error = "Token validation failed"
          /\ res.resp.dispatched = 0
          /\ ~res.resp.found
          /\ StoresUntouched(res)
    /\ LET res == TokenSettledResult(env, [kind |-> "failed", data |-> EmptyMap]) IN
          /\ res.status = 500
          /\ res.error = "server_error"
          /\ res.json = EmptyMap

\* A token exchange has met a network failure, and a /mcp request naming a
\* registered transport has just been answered 500 on one.
C13_Witness ==
    /\ tokenFailed
    /\ last = Sent("POST", [Response EXCEPT !.status = 500,
                                            !.error = "Token validation failed"])
    /\ DOMAIN transports # {}
    /\ DOMAIN sessions # {}

\* C14: with an empty upstream client id nothing goes upstream: no
\* registration succeeds, no authorize request is answered with a redirect
\* or stores a pending authorization, and no token request is sent to the
\* upstream token endpoint.
C14_UnconfiguredNothingUpstream ==
    ~Truthy(env.HH_CLIENT_ID) =>
        /\ \A body \in RegisterBodies : RegisterResult(body).status # 200
        /\ registrations = 0
        /\ ~(last.op = "authorize" /\ last.status = 302)
        /\ DOMAIN issued = {}
        /\ exchanging = {}

\* C15: a registration whose client_name is not a non-empty string is
\* answered 400 invalid_client_metadata, one whose redirect_uris is missing,
\* not a list or an empty list is answered 400 invalid_redirect_uri, and a
\* rejected registration returns no client id.
C15_RegisterValidation ==
    \A body \in RegisterBodies :
        LET res == RegisterResult(body)
            nameOk == body.client_name.t = "string" /\ body.client_name.s # ""
            urisOk == body.redirect_uris.t = "array" /\ Len(body.redirect_uris.a) > 0
        IN /\ ~nameOk => res.status = 400 /\ res.error = "invalid_client_metadata"
           /\ (nameOk /\ ~urisOk) =>
                 res.status = 400 /\ res.error = "invalid_redirect_uri"
           /\ res.status = 400 => "client_id" \notin DOMAIN res.json

\* C16: an accepted authorize request stores exactly one new pending
\* authorization, under a generated key that is in the store for the first
\* time and differs from the caller's state, and is answered 302 to the
\* upstream authorize endpoint with exactly the configured client id,
\* response_type=code, the configured redirect URI and state = that key.
C16_AuthorizeStoresAndRedirects ==
    \A q \in AuthorizeQueries :
        ~LacksRequired(q) =>
            LET res == AuthorizeResult(q)
                k == res.stateKey
            IN /\ k # Undefined
               /\ k \notin DOMAIN sessions
               /\ k # q.state
               /\ DOMAIN res.sessions = DOMAIN sessions \cup {k}
               /\ \A j \in DOMAIN sessions : res.sessions[j] = sessions[j]
               /\ res.sessions[k].originalRedirectUri = q.redirect_uri
               /\ res.sessions[k].originalState = q.state
               /\ res.sessions[k].clientId = q.client_id
               /\ res.resp.status = 302
               /\ res.resp.location =
                     Url("https://hh.ru/oauth/authorize",
                         << <<"client_id", env.HH_CLIENT_ID>>,
                            <<"response_type", "code">>,
                            <<"redirect_uri", ConfiguredRedirectUri(env)>>,
                            <<"state", k>> >>)

\* Two authorizations are pending, the second just accepted.
C16_Witness ==
    /\ last.op = "authorize" /\ last.status = 302
    /\ Cardinality(DOMAIN issued \cap DOMAIN sessions) >= 2

\* C17: a callback carrying a code and a state that is not the key of a
\* pending authorization is answered 400 invalid_state, with no redirect
\* and the store unchanged.
C17_UnknownStateRejected ==
    \A q \in CallbackQueries(uuids) :
        (/\ Truthy(q.code) /\ Truthy(q.state) /\ ~Truthy(q.error)
         /\ q.state \notin DOMAIN issued) =>
            LET res == CallbackResult(q) IN
            /\ res.resp.status = 400
            /\ res.resp.error = "invalid_state"
            /\ res.resp.location = NoUrl
            /\ res.sessions = sessions

\* C18: once the signal handler has run to process.exit, close() has been
\* called on every transport that was registered when the signal came; a
\* close() that throws leaves the rest of them to be visited.
C18_ShutdownAttemptsEveryClose ==
    /\ proc = "running" => signalled = {} /\ attempted = {}
    /\ attempted \subseteq signalled
    /\ proc = "closing" => signalled \subseteq attempted \cup toClose
    /\ proc = "exited" => signalled \subseteq attempted

\* The process has exited after a signal that found two transports: one
\* close() threw and its transport is still registered, the other is closed.
C18_Witness ==
    /\ proc = "exited"
    /\ Cardinality(signalled) >= 2
    /\ \E t \in DOMAIN tstate :
          ~tstate[t].closed /\ tstate[t].sessionId \in attempted
    /\ \E t \in DOMAIN tstate :
          tstate[t].closed /\ tstate[t].sessionId \in attempted

\* C19: every /mcp request carrying a token waits for the upstream identity
\* endpoint, and one the endpoint rejects is answered 401 invalid_token
\* whatever sessions and transports exist and whichever of them it names:
\* nothing is dispatched and no store changes.
C19_TokenRevalidatedEveryRequest ==
    /\ ArriveResult(BearerTok).suspended
    /\ \A r \in McpRequests(uuids) :
          LET res == McpResult(r, "rejected") IN
          /\ res.resp.status = 401
          /\ res.resp.www
          /\ res.resp.error = "Invalid or expired token"
          /\ res.resp.dispatched = 0
          /\ ~res.resp.found
          /\ StoresUntouched(res)

\* A request has just been answered 401 on a rejected token while a
\* transport and a session made under accepted requests are live.
C19_Witness ==
    /\ last = Sent("POST", [Response EXCEPT !.status = 401, !.www = TRUE,
                                            !.error = "Invalid or expired token"])
    /\ LiveTransports # {}
    /\ \E k \in DOMAIN sessions : IsMcpSession(k)

\* The session ids that initialize responses have carried.
AnnouncedIds == {tstate[t].sessionId : t \in DOMAIN tstate}

C21_SuccessRefreshesLastAccess ==
    \A r \in McpRequests(uuids) :
       LET res == McpResult(r, "ok") IN
       (/\ r.method \in {"POST", "GET"}
        /\ Truthy(r.sid)
        /\ res.resp.status = 200
        /\ res.resp.sid = r.sid) =>
           /\ r.sid \in DOMAIN res.sessions
           /\ "lastAccessAt" \in DOMAIN res.sessions[r.sid]
           /\ res.sessions[r.sid].lastAccessAt = now

\* C22: a stream whose client has disconnected has no heartbeat timer left
\* and no heartbeat is written for it.
C22_HeartbeatsOnlyWhileOpen ==
    \A i \in 1..Len(streams) :
       ~streams[i].open => ~streams[i].timer /\ ~streams[i].late

\* C23: once the 'close' listeners of a session's stream have run or its
\* transport has closed, no entry for the session id is left in the store
\* it was registered in, and a second close changes nothing.
C23_CloseReleasesEntry ==
    /\ \A i \in 1..Len(streams) :
          /\ (~streams[i].open /\ ~streams[i].timer) =>
                streams[i].sid \notin DOMAIN sessions
          /\ OnReqClose(OnReqClose(streams[i])) = OnReqClose(streams[i])
    /\ \A t \in DOMAIN tstate :
          /\ tstate[t].closed => tstate[t].sessionId \notin DOMAIN transports
          /\ LET sid == tstate[t].sessionId IN
             OnClose(OnClose(transports, sid), sid) = OnClose(transports, sid)

\* C24: no two open transports and no two open streams carry the same
\* session id.
C24_OneLiveChannelPerSession ==
    /\ \A t1, t2 \in LiveTransports :
          t1 # t2 => tstate[t1].sessionId # tstate[t2].sessionId
    /\ \A i, j \in 1..Len(streams) :
          (i # j /\ streams[i].open /\ streams[j].open) =>
              streams[i].sid # streams[j].sid

\* C25: a GET /mcp presenting the id of a live session, one made by a GET
\* or one made by an initialize POST, streams under the id presented.
C25_GetKeepsPresentedId ==
    \A r \in McpRequests(uuids) :
       (/\ r.method = "GET"
        /\ Truthy(r.sid)
        /\ \/ IsMcpSession(r.sid)
           \/ \E t \in LiveTransports : tstate[t].sessionId = r.sid) =>
           McpResult(r, "ok").resp.sid = r.sid

\* C26: a callback with an error parameter is answered 400 with the error
\* and error_description it carried, redirects nowhere and leaves the store
\* as it was, also when it carries a code and the key of a pending
\* authorization: the same key with the code alone is still consumed.
C26_ErrorCallbackLeavesPending ==
    \A q \in CallbackQueries(uuids) :
        Truthy(q.error) =>
            LET res == CallbackResult(q) IN
            /\ res.resp.status = 400
            /\ res.resp.error = q.error
            /\ res.resp.error_description = q.error_description
            /\ res.resp.location = NoUrl
            /\ res.sessions = sessions
            /\ (Truthy(q.code) /\ q.state \in DOMAIN sessions) =>
                  LET later == CallbackResult(
                                 CallbackQuery(q.code, q.state, Undefined, Undefined))
                  IN /\ later.resp.status \in {302, 500}
                     /\ later.sessions = MapDelete(sessions, q.state)

\* An error callback has been answered and a pending authorization is
\* still stored under its key.
C26_Witness ==
    /\ last = Sent("callback", [Response EXCEPT !.status = 400,
                                                !.error = "access_denied"])
    /\ \E k \in DOMAIN issued : k \in DOMAIN sessions

\* C27: every accepted authorize request gets a state key of its own, a
\* callback with key K redirects to the redirect URI and the state of the
\* request that produced K, and consuming K leaves the other pending
\* entries as they were.
C27_FlowsDoNotInterfere ==
    /\ \A q \in AuthorizeQueries :
          LET res == AuthorizeResult(q) IN
          res.stateKey # Undefined =>
              /\ res.stateKey \notin DOMAIN issued \cup consumed
              /\ \A j \in DOMAIN issued :
                    j \in DOMAIN res.sessions /\ res.sessions[j] = sessions[j]
    /\ \A k \in DOMAIN issued :
          /\ k \in DOMAIN sessions
          /\ sessions[k].originalRedirectUri = issued[k].redirect_uri
          /\ sessions[k].originalState = issued[k].state
    /\ \A q \in CallbackQueries(uuids) :
          (CarriesCode(q) /\ q.state \in DOMAIN issued) =>
              LET res == CallbackResult(q)
                  R == issued[q.state].redirect_uri
                  S == issued[q.state].state
              IN /\ res.sessions = MapDelete(sessions, q.state)
                 /\ \A j \in DOMAIN issued \ {q.state} :
                       j \in DOMAIN res.sessions /\ res.sessions[j] = sessions[j]
                 /\ ParseUrl(R).valid =>
                       /\ res.resp.status = 302
                       /\ res.resp.location =
                             ExpectedRedirect(R, IF Truthy(S) THEN S ELSE Undefined,
                                              q.code)

\* One flow has been completed by its callback while the authorization of
\* another request is still pending.
C27_Witness ==
    /\ last.op = "callback" /\ last.status = 302
    /\ consumed # {}
    /\ \E k \in DOMAIN issued : k \in DOMAIN sessions

\* The token form `body` with client_id c.
WithClientId(body, c) == [body EXCEPT !.client_id = c]

\* A step of the token route: a request was suspended or resumed, or a
\* response of the route was sent.
TokenStep ==
    \/ exchanging' # exchanging
    \/ last' # last /\ last'.op = "token"

\* C30: the token route reads and changes none of the stores: the upstream
\* request of a complete form is made of the environment and the form's
\* code and code_verifier alone, the same for every non-empty client_id and
\* in every state of the pending authorizations, and a step of the route
\* leaves the session map and the transport registry as they were.
C30_TokenIgnoresStores ==
    /\ [](\A body \in TokenBodies :
            ~Incomplete(body) =>
               /\ TokenArriveResult(body).suspended
               /\ TokenArriveResult(body).tokenParams =
                     [grant_type |-> "authorization_code",
                      client_id |-> OrElse(env.HH_CLIENT_ID, ""),
                      client_secret |-> OrElse(env.HH_CLIENT_SECRET, ""),
                      code |-> body.code,
                      redirect_uri |-> ConfiguredRedirectUri(env),
                      code_verifier |-> IF Truthy(body.code_verifier)
                                        THEN body.code_verifier ELSE Undefined]
               /\ \A c \in {"client-a", "client-b", "client-c"} :
                     TokenArriveResult(WithClientId(body, c)) =
                        TokenArriveResult(body))
    /\ [][TokenStep => UNCHANGED <<sessions, transports, tstate, issued, consumed>>]_vars

\* A token request is upstream while one authorization with a PKCE
\* challenge is pending and another has been consumed by its callback.
C30_Witness ==
    /\ exchanging # {}
    /\ consumed # {}
    /\ \E k \in DOMAIN sessions : Truthy(Get(sessions[k], "codeChallenge"))

\* C28: an authenticated initialize POST whose Mcp-Session-Id header names
\* no registered transport is answered 400 with id null; it makes no
\* transport, draws no session id and leaves the registry as it was.
C28_InitializeWithUnknownIdRejected ==
    \A s \in (SidValues(uuids) \cup {""}) \ {Undefined} :
        s \notin DOMAIN transports =>
            LET res == McpResult(McpRequest("POST", s, InitBody), "ok") IN
            /\ res.resp.status = 400
            /\ res.resp.id = "null"
            /\ res.resp.dispatched = 0
            /\ Drawn(res) = 0
            /\ StoresUntouched(res)

\* C29: a POST that names a session whose transport has been closed is
\* answered 400 when its validation ends and is handed to no transport, and
\* every POST that is handed to a transport is handed to an open one.
C29_ClosedTransportNeverDispatched ==
    \A r \in McpRequests(uuids) :
        r.method = "POST" =>
            LET res == McpResult(r, "ok") IN
            /\ (\E t \in DOMAIN tstate :
                   tstate[t].closed /\ tstate[t].sessionId = r.sid) =>
                  /\ res.resp.status = 400
                  /\ res.resp.dispatched = 0
                  /\ StoresUntouched(res)
            /\ res.resp.dispatched # 0 =>
                  /\ res.resp.dispatched \in DOMAIN res.tstate
                  /\ ~res.tstate[res.resp.dispatched].closed

\* A transport was closed by the shutdown loop while a request was being
\* validated, and a POST has since been answered 400 while the loop has
\* not finished.
C29_Witness ==
    /\ proc = "closing"
    /\ DOMAIN tstate \ LiveTransports # {}
    /\ last = Sent("POST", [Response EXCEPT
                              !.status = 400,
                              !.error = "Bad Request: No valid session ID provided"])

====
